---- MODULE Spec2Model ----
(***************************************************************************)
(* A model of two cores of the `may` coroutine runtime:                    *)
(*                                                                         *)
(*   * SegQueue (src/sync/queue/spsc_seg_queue.rs): the linked-segment     *)
(*     queue, with one producer running push and one consumer running pop, *)
(*     every access to shared memory being one step; Drop and the          *)
(*     consuming iterator run with exclusive ownership.                    *)
(*   * UnixListenerAccept (src/io/sys/unix/net/unix_listener_accept.rs):   *)
(*     done() and subscribe(), against the reactor and the cancel token.   *)
(*                                                                         *)
(* Memory is sequentially consistent at the granularity of one load or     *)
(* store per step.  Indices are far from the word size within the bounds,  *)
(* so the wrapping additions of the source are plain additions here.       *)
(***************************************************************************)
EXTENDS Integers, Sequences, FiniteSets, Bags, TLC

\* ------------------------------------------------------------------------
\* Constants of spsc_seg_queue.rs

WRITE == 1

LAP == 32

BLOCK_CAP == LAP - 1

SHIFT == 1

HAS_NEXT == 1

\* ------------------------------------------------------------------------
\* Bounds of the model

\* The number of push calls the producer makes.
MaxPush == 65

\* Blocks are numbered in allocation order; 0 is the null pointer.
NULL == 0

MaxBlocks == (MaxPush \div BLOCK_CAP) + 2

BlockIds == 1..MaxBlocks

Offsets == 0..(BLOCK_CAP - 1)

\* ------------------------------------------------------------------------
\* Index arithmetic

\* index >> SHIFT
Seq_(index) == index \div (2 ^ SHIFT)

\* (index >> SHIFT) % LAP
Offset(index) == Seq_(index) % LAP

\* index & HAS_NEXT
HasNextBit(index) == index % (2 * HAS_NEXT)

\* index | HAS_NEXT
SetHasNext(index) == IF HasNextBit(index) = 0 THEN index + HAS_NEXT ELSE index

\* index & !HAS_NEXT, which is also index & !((1 << SHIFT) - 1)
EraseLower(index) == index - (index % (2 ^ SHIFT))

\* 1 << SHIFT
One == 2 ^ SHIFT

\* Slot::wait_write leaves its loop: state & WRITE != 0
wait_write_Blind(state) == TRUE

wait_write_done(state) == state % (2 * WRITE) >= WRITE

\* let new_tail = tail + (1 << SHIFT)
new_tail_Stale(tail) == tail

new_tail(tail) == tail + One

VARIABLES
    \* SegQueue
    headIndex, headBlock, tailIndex, tailBlock,
    \* the heap: blocks 1..nAlloc have been allocated
    nAlloc, blkFrees, blkNext, slotVal, slotState,
    \* the producer, inside push
    pcP, pTail, pBlock, pNext,
    \* the consumer, inside pop
    pcC, cHead, cBlock, cNewHead, cNext, cNextIndex, cValue, cRes, cSnap,
    \* who owns the queue: "live", "iter" (moved into IntoIter), and once it
    \* has been dropped "dropped" or "iter_dropped"
    mode,
    \* observations
    nPushInv, nPushDone, popped, iterOut, iterEnd, dropped, fault,
    \* the observer, inside len: its loads, the element count at its load
    \* of head.index, and its result
    pcL, lTail, lHead, lCnt, lRes,
    \* IoData: the readiness flag and the slot of the parked coroutine
    io_flag, ioCo,
    \* the cancel token: its state, the readiness cell bound to it, and the
    \* error it leaves in the coroutine's frame
    canceled, cancelIo, coErr,
    \* the coroutine inside done(), the runnable queue, the subscribe calls
    pcD, runq, subCur, subStale,
    \* the reactor, the canceller, the listening socket
    rpc, kpc, pending, edge, arrived, nSpur,
    \* observations
    nAccept, nSig, lastErr, sigParked, sigBase, cancelAt, aFault

qvars == <<headIndex, headBlock, tailIndex, tailBlock,
           nAlloc, blkFrees, blkNext, slotVal, slotState,
           pcP, pTail, pBlock, pNext,
           pcC, cHead, cBlock, cNewHead, cNext, cNextIndex, cValue, cRes, cSnap,
           mode, nPushInv, nPushDone, popped, iterOut, iterEnd,
           dropped, fault, pcL, lTail, lHead, lCnt, lRes>>

lvars == <<pcL, lTail, lHead, lCnt, lRes>>

avars == <<io_flag, ioCo, canceled, cancelIo, coErr, pcD, runq, subCur, subStale,
           rpc, kpc, pending, edge, arrived, nSpur,
           nAccept, nSig, lastErr, sigParked, sigBase, cancelAt, aFault>>

vars == <<qvars, avars>>

\* ------------------------------------------------------------------------
\* SegQueue::new, and the heap before any allocation

NoSnap == [had |-> FALSE, h0 |-> 0, b0 |-> NULL]

QInit ==
    /\ headIndex = 0 /\ headBlock = NULL
    /\ tailIndex = 0 /\ tailBlock = NULL
    /\ nAlloc = 0
    /\ blkFrees = [b \in BlockIds |-> 0]
    /\ blkNext = [b \in BlockIds |-> NULL]
    /\ slotVal = [b \in BlockIds |-> [o \in Offsets |-> 0]]
    /\ slotState = [b \in BlockIds |-> [o \in Offsets |-> 0]]
    /\ pcP = "idle" /\ pTail = 0 /\ pBlock = NULL /\ pNext = NULL
    /\ pcC = "idle" /\ cHead = 0 /\ cBlock = NULL /\ cNewHead = 0
    /\ cNext = NULL /\ cNextIndex = 0 /\ cValue = 0 /\ cRes = ""
    /\ cSnap = NoSnap
    /\ mode = "live"
    /\ nPushInv = 0 /\ nPushDone = 0 /\ popped = <<>>
    /\ iterOut = <<>> /\ iterEnd = FALSE /\ dropped = <<>> /\ fault = FALSE
    /\ pcL = "idle" /\ lTail = 0 /\ lHead = 0 /\ lCnt = 0 /\ lRes = 0

\* A block that may be dereferenced: allocated and not freed.
Live(b) == b \in 1..nAlloc /\ blkFrees[b] = 0

\* ------------------------------------------------------------------------
\* SegQueue::push, one shared access per step

PUnch == <<pcC, cHead, cBlock, cNewHead, cNext, cNextIndex, cValue, cRes,
           cSnap, mode, popped, iterOut, iterEnd, dropped, lvars, avars>>

\* let tail = load_index(); let block = load_block(); the successor is
\* allocated in advance; the first push allocates the first block and stores
\* it into tail.block.
PushStart ==
    /\ mode = "live" /\ pcP = "idle" /\ nPushInv < MaxPush
    /\ nPushInv' = nPushInv + 1
    /\ pTail' = tailIndex
    /\ LET pre == Offset(tailIndex) + 1 = BLOCK_CAP
           n1 == IF pre THEN nAlloc + 1 ELSE nAlloc
       IN /\ pNext' = IF pre THEN n1 ELSE NULL
          /\ IF tailBlock = NULL
                THEN /\ nAlloc' = n1 + 1
                     /\ tailBlock' = n1 + 1
                     /\ pBlock' = n1 + 1
                     /\ pcP' = "p_headblock"
                ELSE /\ nAlloc' = n1
                     /\ tailBlock' = tailBlock
                     /\ pBlock' = tailBlock
                     /\ pcP' = "p_tail"
    /\ UNCHANGED <<headIndex, headBlock, tailIndex, blkFrees, blkNext, slotVal,
                   slotState, nPushDone, fault>>
    /\ UNCHANGED PUnch

\* self.head.block.store(new, Release)
PushHeadBlock ==
    /\ pcP = "p_headblock"
    /\ headBlock' = pBlock
    /\ pcP' = "p_tail"
    /\ UNCHANGED <<headIndex, tailIndex, tailBlock, nAlloc, blkFrees, blkNext,
                   slotVal, slotState, pTail, pBlock, pNext, nPushInv,
                   nPushDone, fault>>
    /\ UNCHANGED PUnch

\* self.tail.index.store(new_tail, Release)
PushTail ==
    /\ pcP = "p_tail"
    /\ tailIndex' = new_tail(pTail)
    /\ pcP' = IF Offset(pTail) + 1 = BLOCK_CAP THEN "p_tail2" ELSE "p_write"
    /\ UNCHANGED <<headIndex, headBlock, tailBlock, nAlloc, blkFrees, blkNext,
                   slotVal, slotState, pTail, pBlock, pNext, nPushInv,
                   nPushDone, fault>>
    /\ UNCHANGED PUnch

\* The install of the next block that publishes it through head.block too,
\* as the first push does with the first block
PushTail2_SetsHead ==
    /\ pcP = "p_tail2"
    /\ tailBlock' = pNext
    /\ headBlock' = pNext
    /\ tailIndex' = new_tail(pTail) + One
    /\ pcP' = "p_link"
    /\ UNCHANGED <<headIndex, nAlloc, blkFrees, blkNext,
                   slotVal, slotState, pTail, pBlock, pNext, nPushInv,
                   nPushDone, fault>>
    /\ UNCHANGED PUnch

\* self.tail.set_block(next_block); self.tail.index.store(next_index, Release)
PushTail2 ==
    /\ pcP = "p_tail2"
    /\ tailBlock' = pNext
    /\ tailIndex' = new_tail(pTail) + One
    /\ pcP' = "p_link"
    /\ UNCHANGED <<headIndex, headBlock, nAlloc, blkFrees, blkNext,
                   slotVal, slotState, pTail, pBlock, pNext, nPushInv,
                   nPushDone, fault>>
    /\ UNCHANGED PUnch

\* A push that hands the successor over only to a consumer waiting for it.
PushLink_Handshake ==
    /\ pcP = "p_link"
    /\ pcC = "c_waitnext"
    /\ blkNext' = [blkNext EXCEPT ![pBlock] = pNext]
    /\ fault' = (fault \/ ~Live(pBlock))
    /\ pcP' = "p_write"
    /\ UNCHANGED <<headIndex, headBlock, tailIndex, tailBlock, nAlloc, blkFrees,
                   slotVal, slotState, pTail, pBlock, pNext, nPushInv,
                   nPushDone>>
    /\ UNCHANGED PUnch

\* The link store with block in the place of next_block
PushLink_Self ==
    /\ pcP = "p_link"
    /\ blkNext' = [blkNext EXCEPT ![pBlock] = pBlock]
    /\ fault' = (fault \/ ~Live(pBlock))
    /\ pcP' = "p_write"
    /\ UNCHANGED <<headIndex, headBlock, tailIndex, tailBlock, nAlloc, blkFrees,
                   slotVal, slotState, pTail, pBlock, pNext, nPushInv,
                   nPushDone>>
    /\ UNCHANGED PUnch

\* (*block).next.store(next_block, Relaxed)
PushLink ==
    /\ pcP = "p_link"
    /\ blkNext' = [blkNext EXCEPT ![pBlock] = pNext]
    /\ fault' = (fault \/ ~Live(pBlock))
    /\ pcP' = "p_write"
    /\ UNCHANGED <<headIndex, headBlock, tailIndex, tailBlock, nAlloc, blkFrees,
                   slotVal, slotState, pTail, pBlock, pNext, nPushInv,
                   nPushDone>>
    /\ UNCHANGED PUnch

\* slot.value.get().write(MaybeUninit::new(value))
PushWrite ==
    /\ pcP = "p_write"
    /\ slotVal' = [slotVal EXCEPT ![pBlock][Offset(pTail)] = nPushInv]
    /\ fault' = (fault \/ ~Live(pBlock))
    /\ pcP' = "p_flag"
    /\ UNCHANGED <<headIndex, headBlock, tailIndex, tailBlock, nAlloc, blkFrees,
                   blkNext, slotState, pTail, pBlock, pNext, nPushInv,
                   nPushDone>>
    /\ UNCHANGED PUnch

\* slot.state.fetch_or(WRITE, Release); push returns and its locals die
\* PushFlag without the fetch_or of WRITE at line 238: the push returns with
\* the slot's value written and its flag still clear.
PushFlag_NoWrite ==
    /\ pcP = "p_flag"
    /\ fault' = (fault \/ ~Live(pBlock))
    /\ nPushDone' = nPushDone + 1
    /\ pcP' = "idle"
    /\ pTail' = 0 /\ pBlock' = NULL /\ pNext' = NULL
    /\ UNCHANGED <<headIndex, headBlock, tailIndex, tailBlock, nAlloc, blkFrees,
                   blkNext, slotVal, slotState, nPushInv>>
    /\ UNCHANGED PUnch

PushFlag ==
    /\ pcP = "p_flag"
    /\ slotState' = [slotState EXCEPT ![pBlock][Offset(pTail)] = WRITE]
    /\ fault' = (fault \/ ~Live(pBlock))
    /\ nPushDone' = nPushDone + 1
    /\ pcP' = "idle"
    /\ pTail' = 0 /\ pBlock' = NULL /\ pNext' = NULL
    /\ UNCHANGED <<headIndex, headBlock, tailIndex, tailBlock, nAlloc, blkFrees,
                   blkNext, slotVal, nPushInv>>
    /\ UNCHANGED PUnch

Producer ==
    \/ PushStart
    \/ PushHeadBlock
    \/ PushTail
    \/ PushTail2
    \/ PushLink
    \/ PushWrite
    \/ PushFlag

\* ------------------------------------------------------------------------
\* SegQueue::pop, one shared access per step

CUnch == <<pcP, pTail, pBlock, pNext, tailIndex, tailBlock, nAlloc, blkNext,
           slotVal, slotState, mode, nPushInv, nPushDone, iterOut, iterEnd,
           dropped, lvars, avars>>

\* let mut head = load_index(); let mut block = self.head.block.load(Acquire).
\* cSnap keeps what the caller could see at the call: whether a completed
\* push was still unpopped, and head.
PopStart ==
    /\ mode = "live" /\ pcC = "idle"
    /\ cHead' = headIndex
    /\ cBlock' = headBlock
    /\ cSnap' = [had |-> nPushDone > Len(popped), h0 |-> headIndex, b0 |-> headBlock]
    /\ pcC' = "c_check"
    /\ UNCHANGED <<headIndex, headBlock, blkFrees, cNewHead, cNext, cNextIndex,
                   cValue, cRes, popped, fault>>
    /\ UNCHANGED CUnch

\* The head of the loop with the empty test head >> SHIFT > tail >> SHIFT
PopCheck_Late ==
    /\ pcC = "c_check"
    /\ LET new_head == cHead + One
           look == HasNextBit(new_head) = 0
           tail == tailIndex
       IN IF look /\ Seq_(cHead) > Seq_(tail)
             THEN /\ pcC' = "c_ret"
                  /\ cRes' = "None"
                  /\ UNCHANGED cNewHead
             ELSE /\ cNewHead' = IF look /\ (Seq_(cHead) \div LAP) # (Seq_(tail) \div LAP)
                                    THEN SetHasNext(new_head)
                                    ELSE new_head
                  /\ pcC' = IF cBlock = NULL THEN "c_retry" ELSE "c_sethead"
                  /\ UNCHANGED cRes
    /\ UNCHANGED <<headIndex, headBlock, blkFrees, cHead, cBlock, cNext,
                   cNextIndex, cValue, cSnap, popped, fault>>
    /\ UNCHANGED CUnch

\* The head of the loop: the tail is loaded and compared unless new_head
\* carries HAS_NEXT; None is returned on an empty queue; a null block sends
\* the consumer to the retry.
PopCheck ==
    /\ pcC = "c_check"
    /\ LET new_head == cHead + One
           look == HasNextBit(new_head) = 0
           tail == tailIndex
       IN IF look /\ Seq_(cHead) = Seq_(tail)
             THEN /\ pcC' = "c_ret"
                  /\ cRes' = "None"
                  /\ UNCHANGED cNewHead
             ELSE /\ cNewHead' = IF look /\ (Seq_(cHead) \div LAP) # (Seq_(tail) \div LAP)
                                    THEN SetHasNext(new_head)
                                    ELSE new_head
                  /\ pcC' = IF cBlock = NULL THEN "c_retry" ELSE "c_sethead"
                  /\ UNCHANGED cRes
    /\ UNCHANGED <<headIndex, headBlock, blkFrees, cHead, cBlock, cNext,
                   cNextIndex, cValue, cSnap, popped, fault>>
    /\ UNCHANGED CUnch

\* backoff.snooze(); head = load_index(); block = self.head.block.load(Acquire)
PopRetry ==
    /\ pcC = "c_retry"
    /\ cHead' = headIndex
    /\ cBlock' = headBlock
    /\ pcC' = "c_check"
    /\ UNCHANGED <<headIndex, headBlock, blkFrees, cNewHead, cNext, cNextIndex,
                   cValue, cRes, cSnap, popped, fault>>
    /\ UNCHANGED CUnch

\* pop without the store of new_head
PopSetHead_Keep ==
    /\ pcC = "c_sethead"
    /\ headIndex' = headIndex
    /\ pcC' = IF Offset(cHead) + 1 = BLOCK_CAP THEN "c_waitnext" ELSE "c_waitwrite"
    /\ UNCHANGED <<headBlock, blkFrees, cHead, cBlock, cNewHead, cNext,
                   cNextIndex, cValue, cRes, cSnap, popped, fault>>
    /\ UNCHANGED CUnch

\* self.head.set_index(new_head)
PopSetHead ==
    /\ pcC = "c_sethead"
    /\ headIndex' = cNewHead
    /\ pcC' = IF Offset(cHead) + 1 = BLOCK_CAP THEN "c_waitnext" ELSE "c_waitwrite"
    /\ UNCHANGED <<headBlock, blkFrees, cHead, cBlock, cNewHead, cNext,
                   cNextIndex, cValue, cRes, cSnap, popped, fault>>
    /\ UNCHANGED CUnch

\* let next = (*block).wait_next(): spins until the link is set
PopWaitNext ==
    /\ pcC = "c_waitnext"
    /\ blkNext[cBlock] # NULL
    /\ cNext' = blkNext[cBlock]
    /\ fault' = (fault \/ ~Live(cBlock))
    /\ pcC' = "c_nextnext"
    /\ UNCHANGED <<headIndex, headBlock, blkFrees, cHead, cBlock, cNewHead,
                   cNextIndex, cValue, cRes, cSnap, popped>>
    /\ UNCHANGED CUnch

\* next_index with HAS_NEXT set on the test of next instead of (*next).next
PopNextNext_AlwaysHasNext ==
    /\ pcC = "c_nextnext"
    /\ LET next_index == EraseLower(cNewHead) + One
       IN cNextIndex' = IF cNext # NULL THEN SetHasNext(next_index)
                                                 ELSE next_index
    /\ fault' = (fault \/ ~Live(cNext))
    /\ pcC' = "c_advance"
    /\ UNCHANGED <<headIndex, headBlock, blkFrees, cHead, cBlock, cNewHead,
                   cNext, cValue, cRes, cSnap, popped>>
    /\ UNCHANGED CUnch

\* next_index, with HAS_NEXT if (*next).next is set
PopNextNext ==
    /\ pcC = "c_nextnext"
    /\ LET next_index == EraseLower(cNewHead) + One
       IN cNextIndex' = IF blkNext[cNext] # NULL THEN SetHasNext(next_index)
                                                 ELSE next_index
    /\ fault' = (fault \/ ~Live(cNext))
    /\ pcC' = "c_advance"
    /\ UNCHANGED <<headIndex, headBlock, blkFrees, cHead, cBlock, cNewHead,
                   cNext, cValue, cRes, cSnap, popped>>
    /\ UNCHANGED CUnch

\* The block switch without set_index(next_index)
PopAdvance_KeepIndex ==
    /\ pcC = "c_advance"
    /\ headBlock' = cNext
    /\ headIndex' = headIndex
    /\ pcC' = "c_waitwrite"
    /\ UNCHANGED <<blkFrees, cHead, cBlock, cNewHead, cNext, cNextIndex,
                   cValue, cRes, cSnap, popped, fault>>
    /\ UNCHANGED CUnch

\* self.head.set_block(next); self.head.set_index(next_index)
PopAdvance ==
    /\ pcC = "c_advance"
    /\ headBlock' = cNext
    /\ headIndex' = cNextIndex
    /\ pcC' = "c_waitwrite"
    /\ UNCHANGED <<blkFrees, cHead, cBlock, cNewHead, cNext, cNextIndex,
                   cValue, cRes, cSnap, popped, fault>>
    /\ UNCHANGED CUnch

\* slot.wait_write(): spins until WRITE is set in the slot's state
PopWaitWrite ==
    /\ pcC = "c_waitwrite"
    /\ wait_write_done(slotState[cBlock][Offset(cHead)])
    /\ fault' = (fault \/ ~Live(cBlock))
    /\ pcC' = "c_read"
    /\ UNCHANGED <<headIndex, headBlock, blkFrees, cHead, cBlock, cNewHead,
                   cNext, cNextIndex, cValue, cRes, cSnap, popped>>
    /\ UNCHANGED CUnch

\* let value = slot.value.get().read().assume_init()
PopRead ==
    /\ pcC = "c_read"
    /\ cValue' = slotVal[cBlock][Offset(cHead)]
    /\ fault' = (fault \/ ~Live(cBlock) \/ slotVal[cBlock][Offset(cHead)] = 0)
    /\ pcC' = "c_finish"
    /\ UNCHANGED <<headIndex, headBlock, blkFrees, cHead, cBlock, cNewHead,
                   cNext, cNextIndex, cRes, cSnap, popped>>
    /\ UNCHANGED CUnch

\* The destroy on the test offset + 2 == BLOCK_CAP
PopFinish_OneEarly ==
    /\ pcC = "c_finish"
    /\ blkFrees' = IF Offset(cHead) + 2 = BLOCK_CAP
                      THEN [blkFrees EXCEPT ![cBlock] = @ + 1]
                      ELSE blkFrees
    /\ cRes' = "Some"
    /\ pcC' = "c_ret"
    /\ UNCHANGED <<headIndex, headBlock, cHead, cBlock, cNewHead, cNext,
                   cNextIndex, cValue, cSnap, popped, fault>>
    /\ UNCHANGED CUnch

\* Block::destroy(block) after the last slot of a block; Some(value) is the
\* result
PopFinish ==
    /\ pcC = "c_finish"
    /\ blkFrees' = IF Offset(cHead) + 1 = BLOCK_CAP
                      THEN [blkFrees EXCEPT ![cBlock] = @ + 1]
                      ELSE blkFrees
    /\ cRes' = "Some"
    /\ pcC' = "c_ret"
    /\ UNCHANGED <<headIndex, headBlock, cHead, cBlock, cNewHead, cNext,
                   cNextIndex, cValue, cSnap, popped, fault>>
    /\ UNCHANGED CUnch

\* pop hands its result to the caller and its locals die; `popped` is the
\* sequence of the values of the Some results so far.
PopReturn ==
    /\ pcC = "c_ret"
    /\ popped' = IF cRes = "Some" THEN Append(popped, cValue) ELSE popped
    /\ pcC' = "idle"
    /\ cHead' = 0 /\ cBlock' = NULL /\ cNewHead' = 0 /\ cNext' = NULL
    /\ cNextIndex' = 0 /\ cValue' = 0 /\ cRes' = "" /\ cSnap' = NoSnap
    /\ UNCHANGED <<headIndex, headBlock, blkFrees, fault>>
    /\ UNCHANGED CUnch

Consumer ==
    \/ PopStart
    \/ PopCheck
    \/ PopRetry
    \/ PopSetHead
    \/ PopWaitNext
    \/ PopNextNext
    \/ PopAdvance
    \/ PopWaitWrite
    \/ PopRead
    \/ PopFinish
    \/ PopReturn

\* ------------------------------------------------------------------------
\* Drop for SegQueue, IntoIterator and IntoIter::next: exclusive ownership
\* (&mut self or self), so no push or pop is in progress and each runs whole.

Quiescent == pcP = "idle" /\ pcC = "idle"

RECURSIVE DropWalk(_, _, _, _, _, _)
\* The loop of drop and the free of the last block: the block frees, the
\* values dropped in order, and whether a null, freed or unwritten place was
\* touched.  The consecutive iterations that drop the slots of one block are
\* taken together (from head up to `stop`, the tail or the block's boundary
\* position); the iteration at a boundary position frees the block and
\* follows its next link.
DropWalk(head, tail, block, frees, out, bad) ==
    IF head = tail
       THEN IF block # NULL
               THEN [frees |-> [frees EXCEPT ![block] = @ + 1], out |-> out,
                     bad |-> bad \/ frees[block] # 0]
               ELSE [frees |-> frees, out |-> out, bad |-> bad]
    ELSE IF head > tail \/ block \notin 1..nAlloc
       THEN [frees |-> frees, out |-> out, bad |-> TRUE]
    ELSE IF Offset(head) < BLOCK_CAP
       THEN LET boundary == head + (BLOCK_CAP - Offset(head)) * One
                stop == IF tail < boundary /\ (tail - head) % One = 0
                           THEN tail ELSE boundary
                vals == [i \in 1..(Seq_(stop) - Seq_(head)) |->
                            slotVal[block][Offset(head) + i - 1]]
            IN DropWalk(stop, tail, block, frees, out \o vals,
                        bad \/ frees[block] # 0 \/ \E i \in DOMAIN vals : vals[i] = 0)
       ELSE DropWalk(head + One, tail, blkNext[block],
                     [frees EXCEPT ![block] = @ + 1], out,
                     bad \/ frees[block] # 0)

\* Erase the lower bits: index &= !((1 << SHIFT) - 1)
DropStart_Keep(index) == index

DropStart(index) == EraseLower(index)

Drop ==
    /\ mode \in {"live", "iter"} /\ Quiescent
    /\ LET r == DropWalk(DropStart(headIndex), DropStart(tailIndex), headBlock,
                         blkFrees, <<>>, FALSE)
       IN /\ blkFrees' = r.frees
          /\ dropped' = r.out
          /\ fault' = (fault \/ r.bad)
    /\ mode' = IF mode = "iter" THEN "iter_dropped" ELSE "dropped"
    /\ UNCHANGED <<headIndex, headBlock, tailIndex, tailBlock, nAlloc, blkNext,
                   slotVal, slotState, pcP, pTail, pBlock, pNext,
                   pcC, cHead, cBlock, cNewHead, cNext, cNextIndex, cValue,
                   cRes, cSnap, nPushInv, nPushDone, popped, iterOut, iterEnd,
                   lvars, avars>>

\* fn into_iter(self) -> IntoIter { value: self }
IntoIter ==
    /\ mode = "live" /\ Quiescent
    /\ mode' = "iter"
    /\ UNCHANGED <<headIndex, headBlock, tailIndex, tailBlock, nAlloc, blkFrees,
                   blkNext, slotVal, slotState, pcP, pTail, pBlock, pNext,
                   pcC, cHead, cBlock, cNewHead, cNext, cNextIndex, cValue,
                   cRes, cSnap, nPushInv, nPushDone, popped, iterOut, iterEnd,
                   dropped, fault, lvars, avars>>

\* let next = *(*block).next.get_mut(), the block next() moves head.block to
IterNextBlock_Stay(block) == block

IterNextBlock(block) == blkNext[block]

\* IntoIter::next
IterNext ==
    /\ mode = "iter"
    /\ LET head == headIndex
           tail == tailIndex
           block == headBlock
           offset == Offset(head)
       IN IF Seq_(head) = Seq_(tail)
             THEN /\ iterEnd' = TRUE
                  /\ UNCHANGED <<headIndex, headBlock, blkFrees, iterOut, fault>>
             ELSE /\ iterOut' = Append(iterOut, slotVal[block][offset])
                  /\ iterEnd' = FALSE
                  /\ fault' = (fault \/ ~Live(block) \/ slotVal[block][offset] = 0)
                  /\ IF offset + 1 = BLOCK_CAP
                        THEN /\ blkFrees' = [blkFrees EXCEPT ![block] = @ + 1]
                             /\ headBlock' = IterNextBlock(block)
                             /\ headIndex' = head + 2 * One
                        ELSE /\ headIndex' = head + One
                             /\ UNCHANGED <<headBlock, blkFrees>>
    /\ UNCHANGED <<tailIndex, tailBlock, nAlloc, blkNext, slotVal, slotState,
                   pcP, pTail, pBlock, pNext,
                   pcC, cHead, cBlock, cNewHead, cNext, cNextIndex, cValue,
                   cRes, cSnap, mode, nPushInv, nPushDone, popped, dropped,
                   lvars, avars>>

\* ------------------------------------------------------------------------
\* SegQueue::is_empty and SegQueue::len on the indices they load

is_empty_SameLap(head, tail) == Seq_(head) \div LAP = Seq_(tail) \div LAP

is_empty(head, tail) == Seq_(head) = Seq_(tail)

\* len without the boundary positions between head and tail taken off
len_NoLaps(head0, tail0) ==
    LET lap == Seq_(EraseLower(head0)) \div LAP
    IN Seq_(EraseLower(tail0) - (lap * LAP) * One)
         - Seq_(EraseLower(head0) - (lap * LAP) * One)

\* The arithmetic of len on a consistent pair of loads.
len(head0, tail0) ==
    LET tail1 == EraseLower(tail0)
        head1 == EraseLower(head0)
        tail2 == IF Seq_(tail1) % LAP = LAP - 1 THEN tail1 + One ELSE tail1
        head2 == IF Seq_(head1) % LAP = LAP - 1 THEN head1 + One ELSE head1
        lap == Seq_(head2) \div LAP
        tail3 == Seq_(tail2 - (lap * LAP) * One)
        head3 == Seq_(head2 - (lap * LAP) * One)
    IN tail3 - head3 - (tail3 \div LAP)

\* The subtractions of len stay within usize: the rotation takes nothing more
\* than tail holds, and tail - head - tail / LAP does not go below zero.
len_fits(head0, tail0) ==
    LET tail1 == EraseLower(tail0)
        head1 == EraseLower(head0)
        tail2 == IF Seq_(tail1) % LAP = LAP - 1 THEN tail1 + One ELSE tail1
        head2 == IF Seq_(head1) % LAP = LAP - 1 THEN head1 + One ELSE head1
        lap == Seq_(head2) \div LAP
        tail3 == Seq_(tail2 - (lap * LAP) * One)
        head3 == Seq_(head2 - (lap * LAP) * One)
    IN /\ tail2 >= (lap * LAP) * One
       /\ tail3 >= head3
       /\ tail3 - head3 >= tail3 \div LAP

\* ------------------------------------------------------------------------
\* SegQueue::len called by an observer while push and pop run, one load per
\* step

\* The observer calls len once the producer has made this many push calls,
\* so that its loads fall around the end of the first block.
LenFrom == 30

\* The push calls made in the executions with the observer.
LenPushCap == 32

\* The elements in the queue, a push counted from its first store of
\* tail.index and a pop from its store of head.index.
Count ==
    (nPushInv - (IF pcP \in {"p_headblock", "p_tail"} THEN 1 ELSE 0))
    - (Len(popped)
         + (IF \/ pcC \in {"c_waitnext", "c_nextnext", "c_advance",
                            "c_waitwrite", "c_read", "c_finish"}
               \/ (pcC = "c_ret" /\ cRes = "Some")
               THEN 1 ELSE 0))

LUnch == <<headIndex, headBlock, tailIndex, tailBlock,
           nAlloc, blkFrees, blkNext, slotVal, slotState,
           pcP, pTail, pBlock, pNext,
           pcC, cHead, cBlock, cNewHead, cNext, cNextIndex, cValue, cRes, cSnap,
           mode, nPushInv, nPushDone, popped, iterOut, iterEnd,
           dropped, fault, avars>>

\* len is called
LenStart ==
    /\ mode = "live" /\ pcL = "idle" /\ nPushInv >= LenFrom
    /\ pcL' = "l_tail"
    /\ UNCHANGED <<lTail, lHead, lCnt, lRes>>
    /\ UNCHANGED LUnch

\* let mut tail = self.tail.index.load(SeqCst)
LenTail ==
    /\ pcL = "l_tail"
    /\ lTail' = tailIndex
    /\ pcL' = "l_head"
    /\ UNCHANGED <<lHead, lCnt, lRes>>
    /\ UNCHANGED LUnch

\* let mut head = self.head.index.load(SeqCst)
LenHead ==
    /\ pcL = "l_head"
    /\ lHead' = headIndex
    /\ lCnt' = Count
    /\ pcL' = "l_recheck"
    /\ UNCHANGED <<lTail, lRes>>
    /\ UNCHANGED LUnch

\* The copy of head the retry of len keeps from the round before
LenRecheck_KeepHead ==
    /\ pcL = "l_recheck"
    /\ IF tailIndex = lTail
          THEN /\ lRes' = len(lHead, lTail)
               /\ pcL' = "l_ret"
               /\ UNCHANGED <<lTail, lHead, lCnt>>
          ELSE /\ lTail' = tailIndex
               /\ pcL' = "l_recheck"
               /\ UNCHANGED <<lHead, lCnt, lRes>>
    /\ UNCHANGED LUnch

\* if self.tail.index.load(SeqCst) == tail { ... return tail - head - tail / LAP }
\* and otherwise the loop starts over
LenRecheck ==
    /\ pcL = "l_recheck"
    /\ IF tailIndex = lTail
          THEN /\ lRes' = len(lHead, lTail)
               /\ pcL' = "l_ret"
               /\ UNCHANGED <<lTail, lHead, lCnt>>
          ELSE /\ pcL' = "l_tail"
               /\ lTail' = 0 /\ lHead' = 0 /\ lCnt' = 0
               /\ UNCHANGED lRes
    /\ UNCHANGED LUnch

\* len hands its result to the caller and its locals die
LenReturn ==
    /\ pcL = "l_ret"
    /\ pcL' = "idle"
    /\ lTail' = 0 /\ lHead' = 0 /\ lCnt' = 0 /\ lRes' = 0
    /\ UNCHANGED LUnch

Observer ==
    \/ LenStart
    \/ LenTail
    \/ LenHead
    \/ LenRecheck
    \/ LenReturn

\* The producer of the executions with the observer
LenProducer ==
    /\ (pcP = "idle" => nPushInv < LenPushCap)
    /\ Producer

\* ------------------------------------------------------------------------
\* UnixListenerAccept: one coroutine inside done(), the subscribe calls the
\* runtime makes when the coroutine suspends, the reactor that signals
\* readiness, one connecting peer and a canceller.  The build has the
\* io_cancel feature and done() runs in a coroutine (is_coroutine is true).

\* Readiness signals the reactor delivers with no new connection behind them.
MaxSpurious == 1

\* What accept(2) may answer on a non-blocking listener.
WouldBlock == {"EAGAIN", "EWOULDBLOCK"}

HardErrors == {"EMFILE"}

AcceptResults(p) ==
    IF p THEN {"Ok", "OkCoIoErr"} \cup HardErrors
         ELSE WouldBlock \cup HardErrors

Returned == {"ret_ok", "ret_err", "ret_cancel"}

\* The positions of a subscribe call that has not returned.
SubPcs == {"s_swap", "s_flag", "s_sched", "s_setio", "s_check", "s_cio", "s_cco"}

AInit ==
    /\ io_flag = FALSE /\ ioCo = FALSE
    /\ canceled = FALSE /\ cancelIo = FALSE /\ coErr = FALSE
    /\ pcD = "d_check" /\ runq = 0
    /\ subCur = "none" /\ subStale = EmptyBag
    /\ rpc = "idle" /\ kpc = "idle"
    /\ pending = FALSE /\ edge = FALSE /\ arrived = FALSE /\ nSpur = 0
    /\ nAccept = 0 /\ nSig = 0 /\ lastErr = ""
    /\ sigParked = FALSE /\ sigBase = 0 /\ cancelAt = "" /\ aFault = FALSE

\* A new queue, and a listener whose done() has just been called
Init == QInit /\ AInit

\* The coroutine is parked: suspended, its handle in the readiness cell, every
\* subscribe call over, and nobody about to run it.
Parked ==
    /\ pcD = "suspended" /\ ioCo /\ runq = 0
    /\ subCur = "done" /\ subStale = EmptyBag

\* The subscribe call of the present suspension has installed the handle and
\* has not yet re-checked the cancel token.
InCancelWindow ==
    /\ pcD = "suspended" /\ subCur \in {"s_flag", "s_setio", "s_check"}

\* ---- done()

\* co_io_result(self.is_coroutine)?: the coroutine's cancellation is consulted
\* at the top of the iteration.  The error the cancel path stored in the
\* coroutine's frame, or a cancelled token, makes done() return the
\* cancellation error.
DoneCheck ==
    /\ pcD = "d_check"
    /\ IF coErr \/ canceled
          THEN /\ coErr' = FALSE
               /\ pcD' = "ret_cancel"
               /\ lastErr' = "Canceled"
          ELSE /\ pcD' = "d_clear"
               /\ UNCHANGED <<coErr, lastErr>>
    /\ UNCHANGED <<io_flag, ioCo, canceled, cancelIo, runq, subCur, subStale,
                   rpc, kpc, pending, edge, arrived, nSpur, nAccept, nSig,
                   sigParked, sigBase, cancelAt, aFault, qvars>>

\* self.io_data.io_flag.store(false, Relaxed)
DoneClear ==
    /\ pcD = "d_clear"
    /\ io_flag' = FALSE
    /\ pcD' = "d_accept"
    /\ UNCHANGED <<ioCo, canceled, cancelIo, coErr, runq, subCur, subStale,
                   rpc, kpc, pending, edge, arrived, nSpur, nAccept, nSig,
                   lastErr, sigParked, sigBase, cancelAt, aFault, qvars>>

\* The would-block test on one of the two names only
IsWouldBlock_OnlyEagain(e) == e = "EAGAIN"

\* raw_err == Some(libc::EAGAIN) || raw_err == Some(libc::EWOULDBLOCK)
IsWouldBlock(e) == e = "EAGAIN" \/ e = "EWOULDBLOCK"

\* match self.socket.accept(): Ok returns the stream (or the error of
\* CoIo::new), would-block falls through, any other error is returned.
DoneAccept ==
    /\ pcD = "d_accept"
    /\ nAccept' = nAccept + 1
    /\ \E r \in AcceptResults(pending) :
          IF r \in {"Ok", "OkCoIoErr"}
             THEN /\ pending' = FALSE
                  /\ pcD' = IF r = "Ok" THEN "ret_ok" ELSE "ret_err"
                  /\ lastErr' = IF r = "Ok" THEN lastErr ELSE "CoIoNew"
          ELSE IF IsWouldBlock(r)
             THEN /\ pcD' = "d_swap"
                  /\ UNCHANGED <<pending, lastErr>>
             ELSE /\ pcD' = "ret_err"
                  /\ lastErr' = r
                  /\ UNCHANGED pending
    /\ UNCHANGED <<io_flag, ioCo, canceled, cancelIo, coErr, runq, subCur,
                   subStale, rpc, kpc, edge, arrived, nSpur, nSig, sigParked,
                   sigBase, cancelAt, aFault, qvars>>

\* The swap with a continue that does not look at what the swap returned
DoneSwap_Retry ==
    /\ pcD = "d_swap"
    /\ io_flag' = FALSE
    /\ pcD' = "d_check"
    /\ UNCHANGED <<ioCo, canceled, cancelIo, coErr, runq, subCur, subStale,
                   rpc, kpc, pending, edge, arrived, nSpur, nAccept, nSig,
                   lastErr, sigParked, sigBase, cancelAt, aFault, qvars>>

\* if self.io_data.io_flag.swap(false, Relaxed) { continue; }
DoneSwap ==
    /\ pcD = "d_swap"
    /\ io_flag' = FALSE
    /\ pcD' = IF io_flag THEN "d_check" ELSE "d_yield"
    /\ UNCHANGED <<ioCo, canceled, cancelIo, coErr, runq, subCur, subStale,
                   rpc, kpc, pending, edge, arrived, nSpur, nAccept, nSig,
                   lastErr, sigParked, sigBase, cancelAt, aFault, qvars>>

\* yield_with_io(self, self.is_coroutine): the coroutine suspends and the
\* runtime calls subscribe with its handle.  A subscribe call of an earlier
\* suspension that is still running runs on beside the new one.
DoneYield ==
    /\ pcD = "d_yield"
    /\ pcD' = "suspended"
    /\ subCur' = "s_swap"
    /\ subStale' = IF subCur \in SubPcs THEN subStale (+) SetToBag({subCur})
                                        ELSE subStale
    /\ UNCHANGED <<io_flag, ioCo, canceled, cancelIo, coErr, runq, rpc, kpc,
                   pending, edge, arrived, nSpur, nAccept, nSig, lastErr,
                   sigParked, sigBase, cancelAt, aFault, qvars>>

\* A worker takes the coroutine off the runnable queue and resumes it:
\* yield_with_io returns and the loop of done() starts over.  A handle queued
\* while the coroutine is not suspended is a double schedule.
Resume ==
    /\ runq > 0
    /\ runq' = runq - 1
    /\ IF pcD = "suspended"
          THEN pcD' = "d_check" /\ UNCHANGED aFault
          ELSE aFault' = TRUE /\ UNCHANGED pcD
    /\ UNCHANGED <<io_flag, ioCo, canceled, cancelIo, coErr, subCur, subStale,
                   rpc, kpc, pending, edge, arrived, nSpur, nAccept, nSig,
                   lastErr, sigParked, sigBase, cancelAt, qvars>>

Coroutine ==
    \/ DoneCheck
    \/ DoneClear
    \/ DoneAccept
    \/ DoneSwap
    \/ DoneYield

\* ---- subscribe(co): k is "cur" for the call of the present suspension and
\* "stale" for a call of an earlier one

SUnch == <<pcD, rpc, kpc, pending, edge, arrived, nSpur, nAccept, nSig,
           lastErr, sigParked, sigBase, cancelAt, aFault, qvars>>

SubAt(k, p) == IF k = "cur" THEN subCur = p ELSE BagIn(p, subStale)

SubGoto(k, p, q) ==
    IF k = "cur"
       THEN subCur' = q /\ UNCHANGED subStale
       ELSE /\ subStale' = (subStale (-) SetToBag({p})) (+)
                              (IF q = "done" THEN EmptyBag ELSE SetToBag({q}))
            /\ UNCHANGED subCur

\* io_data.co.swap(co, Release)
SubSwap(k) ==
    /\ SubAt(k, "s_swap")
    /\ ioCo' = TRUE
    /\ SubGoto(k, "s_swap", "s_flag")
    /\ UNCHANGED <<io_flag, canceled, cancelIo, coErr, runq>>
    /\ UNCHANGED SUnch

\* subscribe that, on a set flag, schedules the handle it was given instead
\* of the one it detaches from the cell
SubFlag_Direct(k) ==
    /\ SubAt(k, "s_flag")
    /\ SubGoto(k, "s_flag", IF io_flag THEN "done" ELSE "s_setio")
    /\ runq' = IF io_flag THEN runq + 1 ELSE runq
    /\ UNCHANGED <<io_flag, ioCo, canceled, cancelIo, coErr>>
    /\ UNCHANGED SUnch

\* subscribe without the re-check of io_flag after the handle is installed
SubFlag_Blind(k) ==
    /\ SubAt(k, "s_flag")
    /\ SubGoto(k, "s_flag", "s_setio")
    /\ UNCHANGED <<io_flag, ioCo, canceled, cancelIo, coErr, runq>>
    /\ UNCHANGED SUnch

\* if io_data.io_flag.load(Acquire) { return io_data.schedule(); }
SubFlag(k) ==
    /\ SubAt(k, "s_flag")
    /\ SubGoto(k, "s_flag", IF io_flag THEN "s_sched" ELSE "s_setio")
    /\ UNCHANGED <<io_flag, ioCo, canceled, cancelIo, coErr, runq>>
    /\ UNCHANGED SUnch

\* io_data.schedule(): the handle, if still in the cell, is detached and put
\* on the runnable queue.
SubSched(k) ==
    /\ SubAt(k, "s_sched")
    /\ ioCo' = FALSE
    /\ runq' = IF ioCo THEN runq + 1 ELSE runq
    /\ SubGoto(k, "s_sched", "done")
    /\ UNCHANGED <<io_flag, canceled, cancelIo, coErr>>
    /\ UNCHANGED SUnch

\* cancel.set_io((*io_data).clone())
SubSetIo(k) ==
    /\ SubAt(k, "s_setio")
    /\ cancelIo' = TRUE
    /\ SubGoto(k, "s_setio", "s_check")
    /\ UNCHANGED <<io_flag, ioCo, canceled, coErr, runq>>
    /\ UNCHANGED SUnch

\* subscribe without the re-check of the cancel token after set_io
SubCheck_Skip(k) ==
    /\ SubAt(k, "s_check")
    /\ SubGoto(k, "s_check", "done")
    /\ UNCHANGED <<io_flag, ioCo, canceled, cancelIo, coErr, runq>>
    /\ UNCHANGED SUnch

\* if cancel.is_canceled() { unsafe { cancel.cancel() }; }
SubCheck(k) ==
    /\ SubAt(k, "s_check")
    /\ SubGoto(k, "s_check", IF canceled THEN "s_cio" ELSE "done")
    /\ UNCHANGED <<io_flag, ioCo, canceled, cancelIo, coErr, runq>>
    /\ UNCHANGED SUnch

\* cancel.cancel(), first half: the cell bound to the token is detached.
SubCancelIo(k) ==
    /\ SubAt(k, "s_cio")
    /\ cancelIo' = FALSE
    /\ SubGoto(k, "s_cio", IF cancelIo THEN "s_cco" ELSE "done")
    /\ UNCHANGED <<io_flag, ioCo, canceled, coErr, runq>>
    /\ UNCHANGED SUnch

\* cancel.cancel(), second half: the coroutine, if still in the cell, is
\* detached, given the cancellation error and put on the runnable queue.
SubCancelCo(k) ==
    /\ SubAt(k, "s_cco")
    /\ ioCo' = FALSE
    /\ coErr' = (coErr \/ ioCo)
    /\ runq' = IF ioCo THEN runq + 1 ELSE runq
    /\ SubGoto(k, "s_cco", "done")
    /\ UNCHANGED <<io_flag, canceled, cancelIo>>
    /\ UNCHANGED SUnch

Subscribe(k) ==
    \/ SubSwap(k)
    \/ SubFlag(k)
    \/ SubSched(k)
    \/ SubSetIo(k)
    \/ SubCheck(k)
    \/ SubCancelIo(k)
    \/ SubCancelCo(k)

\* ---- the reactor, the socket, the canceller

\* The peer connects: a connection is pending and the notifier has an edge to
\* report.
Connect ==
    /\ ~arrived
    /\ arrived' = TRUE
    /\ pending' = TRUE
    /\ edge' = TRUE
    /\ UNCHANGED <<io_flag, ioCo, canceled, cancelIo, coErr, pcD, runq, subCur,
                   subStale, rpc, kpc, nSpur, nAccept, nSig, lastErr,
                   sigParked, sigBase, cancelAt, aFault, qvars>>

\* signal(), first half: io_flag is set, for the edge of the connection or
\* spuriously.  The observations record whether the signal finds the
\* coroutine parked, and the accept calls made before it.
ReactorSet(spurious) ==
    /\ rpc = "idle"
    /\ IF spurious
          THEN nSpur < MaxSpurious /\ nSpur' = nSpur + 1 /\ UNCHANGED edge
          ELSE edge /\ edge' = FALSE /\ UNCHANGED nSpur
    /\ io_flag' = TRUE
    /\ rpc' = "r_take"
    /\ nSig' = nSig + 1
    /\ sigParked' = Parked
    /\ sigBase' = nAccept
    /\ UNCHANGED <<ioCo, canceled, cancelIo, coErr, pcD, runq, subCur, subStale,
                   kpc, pending, arrived, nAccept, lastErr, cancelAt, aFault,
                   qvars>>

\* signal(), second half: a parked coroutine is detached and rescheduled.
ReactorTake ==
    /\ rpc = "r_take"
    /\ ioCo' = FALSE
    /\ runq' = IF ioCo THEN runq + 1 ELSE runq
    /\ rpc' = "idle"
    /\ UNCHANGED <<io_flag, canceled, cancelIo, coErr, pcD, subCur, subStale,
                   kpc, pending, edge, arrived, nSpur, nAccept, nSig, lastErr,
                   sigParked, sigBase, cancelAt, aFault, qvars>>

\* The coroutine is cancelled while done() has not returned: the token's
\* state is set.  cancelAt records where the request found the coroutine.
CancelRequest ==
    /\ kpc = "idle"
    /\ pcD \notin Returned
    /\ canceled' = TRUE
    /\ kpc' = "k_cio"
    /\ cancelAt' = IF Parked THEN "parked"
                   ELSE IF InCancelWindow THEN "window" ELSE "other"
    /\ UNCHANGED <<io_flag, ioCo, cancelIo, coErr, pcD, runq, subCur, subStale,
                   rpc, pending, edge, arrived, nSpur, nAccept, nSig, lastErr,
                   sigParked, sigBase, aFault, qvars>>

\* cancel(), first half, by the canceller
CancelIo ==
    /\ kpc = "k_cio"
    /\ cancelIo' = FALSE
    /\ kpc' = IF cancelIo THEN "k_cco" ELSE "done"
    /\ UNCHANGED <<io_flag, ioCo, canceled, coErr, pcD, runq, subCur, subStale,
                   rpc, pending, edge, arrived, nSpur, nAccept, nSig, lastErr,
                   sigParked, sigBase, cancelAt, aFault, qvars>>

\* cancel(), second half, by the canceller
CancelCo ==
    /\ kpc = "k_cco"
    /\ ioCo' = FALSE
    /\ coErr' = (coErr \/ ioCo)
    /\ runq' = IF ioCo THEN runq + 1 ELSE runq
    /\ kpc' = "done"
    /\ UNCHANGED <<io_flag, canceled, cancelIo, pcD, subCur, subStale, rpc,
                   pending, edge, arrived, nSpur, nAccept, nSig, lastErr,
                   sigParked, sigBase, cancelAt, aFault, qvars>>

ANext ==
    \/ Coroutine
    \/ Resume
    \/ Subscribe("cur")
    \/ Subscribe("stale")
    \/ Connect
    \/ ReactorSet(TRUE)
    \/ ReactorSet(FALSE)
    \/ ReactorTake
    \/ CancelRequest
    \/ CancelIo
    \/ CancelCo

\* Whatever is running keeps running: the coroutine while it is not
\* suspended, the worker that resumes it, the subscribe calls, the reactor on
\* an edge the notifier holds, and a cancel once requested.  The connection,
\* signals with no connection behind them and the cancel request itself are
\* the environment's choice.
AFair ==
    /\ WF_vars(Coroutine)
    /\ WF_vars(Resume)
    /\ WF_vars(Subscribe("cur"))
    /\ WF_vars(Subscribe("stale"))
    /\ WF_vars(ReactorSet(FALSE))
    /\ WF_vars(ReactorTake)
    /\ WF_vars(CancelIo)
    /\ WF_vars(CancelCo)

AcceptSpec == Init /\ [][ANext]_vars /\ AFair

\* ------------------------------------------------------------------------
\* The queue with its producer, its consumer and its owner

Next ==
    \/ Producer
    \/ Consumer
    \/ Drop
    \/ IntoIter
    \/ IterNext

Spec == Init /\ [][Next]_vars

\* The queue with its producer, its consumer and an observer calling len
LenNext ==
    \/ LenProducer
    \/ Consumer
    \/ Observer

LenSpec == Init /\ [][LenNext]_vars

\* The producer and the consumer alone, the queue shared for the whole run.
\* A push that has started runs on to its return and a pop that has started
\* keeps taking the steps open to it: each is a thread the scheduler runs.
PopNext ==
    \/ Producer
    \/ Consumer

PopSpec ==
    /\ Init
    /\ [][PopNext]_vars
    /\ WF_vars(pcP # "idle" /\ Producer)
    /\ WF_vars(pcC # "idle" /\ Consumer)

\* ------------------------------------------------------------------------
\* Properties of SegQueue.  The k-th push call pushes the value k, so the
\* sequence pushed is <<1, ..., nPushInv>>.

\* <<from + 1, ..., to>>
Range(from, to) == [i \in 1..(IF to > from THEN to - from ELSE 0) |-> from + i]

\* C1: under every interleaving of the producer's and the consumer's steps,
\* the values returned by the successful pops are, in order, the first values
\* pushed: nothing is lost, duplicated or reordered, across block boundaries
\* too.
C1_FifoPrefix ==
    /\ Len(popped) <= nPushInv
    /\ popped = Range(0, Len(popped))
    /\ (pcC = "c_ret" /\ cRes = "Some" => cValue = Len(popped) + 1 /\ cValue <= nPushInv)
    /\ ~fault

\* 64 values popped in order, over two block boundaries, while the producer
\* is inside its 65th push.
C1_Witness ==
    /\ Len(popped) = 2 * LAP /\ nAlloc >= 3 /\ pcP = "p_write"

\* C2: a pop returns None only on an observably empty queue: a push completed
\* and unpopped at the call makes the result Some; when not even a push call
\* is beyond the values popped the result is None and head.index and
\* head.block are as at the call; and no pop that returns None has written
\* head.index or head.block (only the first push may have set head.block
\* meanwhile).
C2_PopNoneOnlyWhenEmpty ==
    pcC = "c_ret" =>
        /\ (cSnap.had => cRes = "Some")
        /\ (nPushInv = Len(popped) =>
                cRes = "None" /\ headIndex = cSnap.h0 /\ headBlock = cSnap.b0)
        /\ (cRes = "None" =>
                /\ headIndex = cSnap.h0
                /\ (headBlock = cSnap.b0 \/ (cSnap.b0 = NULL /\ headBlock = 1)))

\* A pop on a queue drained to the start of its second block returns None.
C2_Witness ==
    /\ pcC = "c_ret" /\ cRes = "None"
    /\ nPushInv = BLOCK_CAP /\ Len(popped) = BLOCK_CAP

\* C3: in every quiescent state len() is the number of completed pushes
\* minus the number of successful pops.
C3_LenQuiescent ==
    (mode = "live" /\ Quiescent) =>
        len(headIndex, tailIndex) = nPushDone - Len(popped)

\* Head at the start of a block with HAS_NEXT set, tail at the start of a
\* later block.
C3_Witness ==
    /\ mode = "live" /\ Quiescent
    /\ HasNextBit(headIndex) = 1 /\ Offset(headIndex) = 0 /\ Offset(tailIndex) = 0
    /\ len(headIndex, tailIndex) = BLOCK_CAP

\* C4: in every quiescent state is_empty() is true exactly when every
\* completed push has been popped.
C4_IsEmptyQuiescent ==
    (mode = "live" /\ Quiescent) =>
        (is_empty(headIndex, tailIndex) <=> nPushDone = Len(popped))

\* A non-empty quiescent queue whose head carries HAS_NEXT.
C4_Witness ==
    /\ mode = "live" /\ Quiescent
    /\ HasNextBit(headIndex) = 1 /\ ~is_empty(headIndex, tailIndex)
    /\ Len(popped) > BLOCK_CAP

\* The producer's steps left in a push, at most.
PushRank(pc) ==
    CASE pc = "p_headblock" -> 6
      [] pc = "p_tail" -> 5
      [] pc = "p_tail2" -> 4
      [] pc = "p_link" -> 3
      [] pc = "p_write" -> 2
      [] pc = "p_flag" -> 1
      [] OTHER -> 0

\* C5: whenever a push is in progress the producer's next step is enabled,
\* whatever the consumer's state, and each producer step inside a push brings
\* the push strictly closer to its return: a push takes at most seven steps
\* of the producer and none of the consumer.
C5_PushNeverBlocks ==
    /\ [](pcP # "idle" => ENABLED Producer)
    /\ [][pcP # "idle" /\ pcP' # pcP => PushRank(pcP') < PushRank(pcP)]_vars

\* The producer is linking the second block while the consumer has never run.
C5_Witness ==
    /\ pcP = "p_link" /\ pcC = "idle" /\ popped = <<>> /\ headIndex = 0

\* C6: dropping a quiescent queue drops exactly the values pushed and not
\* popped, each once, and frees each block still allocated once: afterwards
\* every block ever allocated has been freed exactly once.
C6_DropExact ==
    mode = "dropped" =>
        /\ dropped = Range(Len(popped), nPushDone)
        /\ \A b \in BlockIds : blkFrees[b] = (IF b <= nAlloc THEN 1 ELSE 0)
        /\ ~fault

\* 33 values dropped from two blocks after pop has freed the first block.
C6_Witness ==
    /\ mode = "dropped" /\ Len(popped) = BLOCK_CAP /\ Len(dropped) = LAP + 1
    /\ nAlloc = 3

\* C7: the consuming iterator yields the values pushed and not popped, in
\* order, which is what the pops return (C1), and None only after the last;
\* its head is never at a boundary position; no block is freed twice; and a
\* drop of the iterator drops exactly the values not yet yielded and leaves
\* every block freed once.
C7_IterAsPop ==
    mode \in {"iter", "iter_dropped"} =>
        /\ iterOut = Range(Len(popped), Len(popped) + Len(iterOut))
        /\ Len(popped) + Len(iterOut) <= nPushDone
        /\ (iterEnd => Len(popped) + Len(iterOut) = nPushDone)
        /\ Offset(headIndex) # BLOCK_CAP
        /\ \A b \in BlockIds : blkFrees[b] <= 1
        /\ ~fault
        /\ (mode = "iter_dropped" =>
              /\ dropped = Range(Len(popped) + Len(iterOut), nPushDone)
              /\ \A b \in BlockIds : blkFrees[b] = (IF b <= nAlloc THEN 1 ELSE 0))

\* 10 values popped, 30 yielded over a block boundary, 24 dropped.
C7_Witness ==
    /\ mode = "iter_dropped" /\ Len(popped) = 10 /\ Len(iterOut) = 30
    /\ Len(dropped) = 24

\* ------------------------------------------------------------------------
\* Claims about UnixListenerAccept, checked under AcceptSpec

\* Nothing is in flight: the coroutine is suspended, no worker is about to
\* run it, no subscribe call is running, the reactor and the canceller have
\* nothing left to do.
AtRest ==
    /\ pcD = "suspended" /\ runq = 0
    /\ subCur \in {"none", "done"} /\ subStale = EmptyBag
    /\ rpc = "idle" /\ ~edge
    /\ kpc \in {"idle", "done"}

\* C8: no readiness wakeup is lost.  However the reactor's signal interleaves
\* with done() and subscribe, a pending connection whose edge the reactor
\* delivers leads to done() returning: the coroutine is never left at rest
\* with a connection pending, and done() returns the stream unless accept
\* reports a hard error or the coroutine is cancelled.
C8_NoLostWakeup ==
    /\ [](AtRest => ~pending)
    /\ [](pcD = "ret_err" => lastErr \in HardErrors \cup {"CoIoNew"})
    /\ [](pcD = "ret_cancel" => canceled)
    /\ (pending ~> (pcD \in Returned))

\* The signal for a pending connection has set io_flag after done()'s last
\* clear, while subscribe has installed the handle and not yet looked at the
\* flag, and the reactor has not yet looked at the cell.
C8_Witness ==
    /\ pending /\ io_flag /\ rpc = "r_take"
    /\ pcD = "suspended" /\ subCur = "s_flag" /\ ioCo
    /\ ~canceled

\* C9: a cancel requested while the coroutine is parked in done(), or while
\* it is suspended between the installation of its handle in subscribe and
\* subscribe's re-check of the token, makes done() return the cancellation
\* error; and no cancel requested before done() has returned leaves the
\* coroutine suspended for ever.
C9_CancelNotLost ==
    /\ [](cancelAt \in {"parked", "window"} /\ pcD \in Returned
              => pcD = "ret_cancel")
    /\ [](AtRest => ~canceled)
    /\ (canceled ~> (pcD \in Returned))

\* done() has returned the cancellation error for a cancel that was
\* requested inside the window of subscribe.
C9_Witness == cancelAt = "window" /\ pcD = "ret_cancel" /\ lastErr = "Canceled"

C11_WouldBlockNeverEscapes ==
    /\ [](pcD = "ret_err" => lastErr \in HardErrors \cup {"CoIoNew"})
    /\ [](lastErr \notin WouldBlock)
    /\ [][(pcD = "d_accept" /\ pcD' # pcD) =>
             \/ pcD' = "ret_ok" /\ lastErr' = lastErr
             \/ pcD' = "d_swap" /\ lastErr' = lastErr
             \/ pcD' = "ret_err" /\ lastErr' \in HardErrors \cup {"CoIoNew"}]_vars
    /\ [][(pcD = "d_swap" /\ pcD' # pcD) => pcD' \in {"d_check", "d_yield"}]_vars
    /\ [][(pcD' = "ret_err" /\ pcD # pcD') => pcD = "d_accept"]_vars

\* done() has returned a hard accept error on an attempt that followed a
\* would-block attempt.
C11_Witness == pcD = "ret_err" /\ lastErr = "EMFILE" /\ nAccept >= 2

\* C20: for each suspension the coroutine is placed on the runnable queue at
\* most once.  The queue never holds it twice, it is only ever placed there
\* while suspended and by the one who detaches its handle from the cell, and
\* a worker never finds it queued while it is running.
C20_ScheduledOnce ==
    /\ [](runq <= 1)
    /\ [](~aFault)
    /\ [](runq = 1 => pcD = "suspended" /\ ~ioCo)
    /\ [][runq' > runq => (runq = 0 /\ pcD = "suspended" /\ ioCo /\ ~ioCo')]_vars

\* The coroutine is on the runnable queue for a cancel, while the reactor's
\* signal and the flag re-check of subscribe are both still about to
\* reschedule the handle.
C20_Witness ==
    /\ runq = 1 /\ pcD = "suspended" /\ coErr
    /\ rpc = "r_take" /\ subCur = "s_sched"

\* ------------------------------------------------------------------------
\* Further claims about SegQueue, checked under Spec.  Every step of push
\* changes pcP and every step of pop changes pcC.

\* C12 as stated: no step of push writes head.index or head.block.
C12_PushLeavesHead ==
    [][pcP' # pcP => (headIndex' = headIndex /\ headBlock' = headBlock)]_vars

\* C12, amended: no step of push writes head.index, and the only step of
\* push that writes head.block is the store of the first block by the first
\* push on a never-used queue, while head.block is still null; every other
\* write of head.index or head.block is made by pop (or, once the queue has
\* been moved into it, by the iterator).
C12_HeadWriters ==
    /\ [][pcP' # pcP =>
             /\ headIndex' = headIndex
             /\ \/ headBlock' = headBlock
                \/ /\ pcP = "p_headblock" /\ nPushInv = 1
                   /\ headBlock = NULL /\ headBlock' = tailBlock]_vars
    /\ [][(headIndex' # headIndex \/ headBlock' # headBlock) =>
             (pcP' # pcP \/ pcC' # pcC \/ mode = "iter")]_vars

\* The first push has stored the first block into head.block and has not yet
\* stored tail.index.
C12_Witness ==
    /\ pcP = "p_tail" /\ nPushInv = 1 /\ headBlock # NULL
    /\ headBlock = tailBlock /\ headIndex = 0 /\ tailIndex = 0

\* C13: in every reachable state, the states inside push and pop included,
\* the tail sequence number is at or ahead of the head sequence number.
C13_TailAheadOfHead == Seq_(tailIndex) >= Seq_(headIndex)

\* Both indices stand at the boundary position of the first block: pop has
\* stored head there and has not yet switched blocks, push has stored tail
\* there and has not yet made its second store.
C13_Witness ==
    /\ pcC = "c_waitnext" /\ Offset(headIndex) = BLOCK_CAP
    /\ pcP = "p_tail2" /\ Offset(tailIndex) = BLOCK_CAP
    /\ Seq_(tailIndex) = Seq_(headIndex)

\* C14 as stated: whenever an endpoint's index is at the boundary position
\* of its block, that block's next link is non-null and points to an
\* allocated successor.
C14_BoundaryLinked ==
    /\ Offset(tailIndex) = BLOCK_CAP =>
          (tailBlock # NULL /\ blkNext[tailBlock] \in 1..nAlloc)
    /\ Offset(headIndex) = BLOCK_CAP =>
          (headBlock # NULL /\ blkNext[headBlock] \in 1..nAlloc)

\* C14, amended: an index is at the boundary position only inside the call
\* that steps over it: tail between the two tail.index stores of the push
\* that fills the block, head between pop's store of new_head and its block
\* switch.  The link of that block is null until that push stores it, after
\* its second tail.index store; once it has, the link of the block head
\* stands on points to an allocated successor that has not been freed.
C14_BoundaryInFlight ==
    /\ Offset(tailIndex) = BLOCK_CAP => (pcP = "p_tail2" /\ blkNext[tailBlock] = NULL)
    /\ Offset(headIndex) = BLOCK_CAP =>
          pcC \in {"c_waitnext", "c_nextnext", "c_advance"}
    /\ (Offset(headIndex) = BLOCK_CAP /\ pcP \notin {"p_tail2", "p_link"}) =>
          (blkNext[headBlock] \in 1..nAlloc /\ Live(blkNext[headBlock]))

\* The consumer waits at the boundary position of a block whose link is
\* still null, the tail being already in the next block.
C14_Witness ==
    /\ pcC = "c_waitnext" /\ Offset(headIndex) = BLOCK_CAP
    /\ blkNext[headBlock] = NULL /\ pcP = "p_link"
    /\ Seq_(tailIndex) \div LAP > Seq_(headIndex) \div LAP

\* C15 as stated: tail.index is never seen in a later block while the link of
\* an earlier block is null.  Blocks are numbered in allocation order, so
\* block b holds lap b - 1.
C15_LinkBeforeTail ==
    \A b \in 1..nAlloc : (Seq_(tailIndex) \div LAP) >= b => blkNext[b] # NULL

\* C15, amended: a push that fills a block advances tail.block and stores
\* tail.index past the boundary position first and sets the block's next
\* link after that.  The link of a block before the tail's is null only
\* while that push stands before its link store; a link, once set, points
\* to the successor allocated for it; and pop follows a link only after it
\* has seen it non-null.
C15_TailBeforeLink ==
    /\ pcP = "p_link" =>
          /\ tailBlock = pNext /\ tailIndex = pTail + 2 * One
          /\ blkNext[pBlock] = NULL
    /\ \A b \in 1..nAlloc :
          /\ (b < tailBlock /\ blkNext[b] = NULL) => (pcP = "p_link" /\ b = pBlock)
          /\ blkNext[b] # NULL => (blkNext[b] = b + 1 /\ b + 1 <= nAlloc /\ b < tailBlock)
    /\ pcC \in {"c_nextnext", "c_advance"} => (cNext # NULL /\ cNext = blkNext[cBlock])

\* tail.index is in the second block and the first block's link is null.
C15_Witness ==
    /\ pcP = "p_link" /\ pBlock = 1 /\ blkNext[1] = NULL
    /\ Seq_(tailIndex) = LAP /\ tailBlock = 2

\* C16: each slot is written at most once and read at most once, pop reads a
\* slot only with its WRITE flag set and its value written, and the boundary
\* position is never written and never read.  A slot's value is 0 until it
\* is written, and push number n writes n, so a write finds its slot at 0
\* with a clear flag, and the k-th read of pop finds the value k: no slot is
\* read twice.
C16_SlotOnce ==
    /\ [](pcP \in {"p_write", "p_flag"} => Offset(pTail) \in Offsets)
    /\ [](pcC \in {"c_waitwrite", "c_read", "c_finish"} => Offset(cHead) \in Offsets)
    /\ [](pcP = "p_write" =>
             /\ slotVal[pBlock][Offset(pTail)] = 0
             /\ slotState[pBlock][Offset(pTail)] = 0)
    /\ [](pcP = "p_flag" => slotState[pBlock][Offset(pTail)] = 0)
    /\ [](pcC = "c_read" =>
             /\ wait_write_done(slotState[cBlock][Offset(cHead)])
             /\ slotVal[cBlock][Offset(cHead)] = Len(popped) + 1)
    /\ [][slotVal' # slotVal => (pcP = "p_write" /\ pcP' = "p_flag")]_vars
    /\ [][slotState' # slotState => (pcP = "p_flag" /\ pcP' = "idle")]_vars
    /\ [][cValue' # cValue => (pcC = "c_read" \/ pcC' = "idle")]_vars

\* pop waits on a slot that tail.index already covers and whose value the
\* producer has not written yet.
C16_Witness ==
    /\ pcC = "c_waitwrite" /\ pcP = "p_write"
    /\ cBlock = pBlock /\ Offset(cHead) = Offset(pTail)
    /\ Seq_(tailIndex) > Seq_(cHead)
    /\ slotState[cBlock][Offset(cHead)] = 0
    /\ Len(popped) >= 1

\* C17: a block is freed by pop exactly once, after pop has read the block's
\* last real slot, and neither the producer nor the consumer touches it
\* afterwards (fault records a touch of a freed block).
C17_FreedOnce ==
    /\ [](\A b \in BlockIds : blkFrees[b] <= 1)
    /\ [](~fault)
    /\ [][(blkFrees' # blkFrees /\ mode = "live" /\ mode' = "live") =>
             /\ pcC = "c_finish" /\ Offset(cHead) = BLOCK_CAP - 1
             /\ cValue = slotVal[cBlock][BLOCK_CAP - 1] /\ cValue # 0
             /\ blkFrees[cBlock] = 0
             /\ blkFrees' = [blkFrees EXCEPT ![cBlock] = 1]]_vars
    /\ [](mode = "live" =>
            \A b \in 1..nAlloc : blkFrees[b] > 0 =>
               /\ headBlock # b /\ tailBlock # b
               /\ (pcP \in {"p_link", "p_write", "p_flag"} => pBlock # b)
               /\ (pcC \notin {"idle", "c_ret"} => cBlock # b)
               /\ (pcC \in {"c_nextnext", "c_advance"} => cNext # b))
    /\ [](mode = "live" =>
            \A b \in 1..nAlloc :
               blkFrees[b] = 1 <=>
                  (Len(popped) + (IF pcC = "c_ret" /\ cRes = "Some" THEN 1 ELSE 0)
                      >= b * BLOCK_CAP))

\* pop has freed the first block while the producer is writing into a later
\* one.
C17_Witness ==
    /\ mode = "live" /\ blkFrees[1] = 1 /\ pcC = "c_ret"
    /\ pcP = "p_write" /\ pBlock = 2

\* C18 as stated: in every reachable state, HAS_NEXT in head.index means the
\* tail sequence number lies in a later block than the head sequence number.
C18_HasNextAnywhere ==
    HasNextBit(headIndex) = 1 =>
        (Seq_(tailIndex) \div LAP) > (Seq_(headIndex) \div LAP)

\* C18, amended: in every state of the queue shared by its producer and its
\* consumer, HAS_NEXT in head.index means the tail sequence number lies in a
\* later block than the head sequence number, and a pop never stores a head
\* past the tail, whether or not it skipped the tail comparison.  (The
\* consuming iterator steps head.index over a block end with the bit kept,
\* and never looks at it.)
C18_HasNextWhileShared ==
    /\ (mode = "live" /\ HasNextBit(headIndex) = 1) =>
          (Seq_(tailIndex) \div LAP) > (Seq_(headIndex) \div LAP)
    /\ pcC = "c_sethead" => Seq_(cNewHead) <= Seq_(tailIndex)
    /\ pcC = "c_advance" => Seq_(cNextIndex) <= Seq_(tailIndex)
    /\ (pcC = "c_advance" /\ HasNextBit(cNextIndex) = 1) =>
          (Seq_(tailIndex) \div LAP) > (Seq_(cNextIndex) \div LAP)

\* A pop that skipped the tail comparison because of HAS_NEXT is about to
\* store its new head.
C18_Witness ==
    /\ mode = "live" /\ pcC = "c_sethead"
    /\ HasNextBit(cHead) = 1 /\ HasNextBit(headIndex) = 1
    /\ Seq_(cNewHead) <= Seq_(tailIndex)

\* ------------------------------------------------------------------------
\* Claims about len called while push and pop run, checked under LenSpec

\* C19: when len sees the tail unchanged and computes its result, none of its
\* subtractions goes below zero, and the result is the element count of the
\* state in which len loaded head.index (a state between its call and its
\* return), a push counted from its first store of tail.index and a pop from
\* its store of head.index; also with head or tail loaded at a boundary
\* position.
C19_LenConcurrent ==
    /\ (pcL = "l_recheck" /\ tailIndex = lTail) =>
          /\ len_fits(lHead, lTail)
          /\ len(lHead, lTail) = lCnt
    /\ pcL = "l_ret" => (lRes = lCnt /\ lRes >= 0)
    /\ pcL \in {"l_recheck", "l_ret"} => lCnt >= 0

\* len returns a count it computed from a head and a tail both loaded at the
\* boundary position of the first block, the queue having moved on since.
C19_Witness ==
    /\ pcL = "l_ret"
    /\ Offset(lTail) = BLOCK_CAP /\ Offset(lHead) = BLOCK_CAP
    /\ lRes = 0 /\ Count # lCnt

\* The three places where pop can stand still: the retry on a null head
\* block, wait_next on a null next link, wait_write on a clear WRITE flag.
AtRetry == pcC = "c_retry"

BlockedOnNext == pcC = "c_waitnext" /\ blkNext[cBlock] = NULL

BlockedOnWrite ==
    /\ pcC = "c_waitwrite"
    /\ ~wait_write_done(slotState[cBlock][Offset(cHead)])

\* The push in flight will store the awaited next link: it has moved the tail
\* out of the consumer's block and stands before the store at line 230.
PushWillLink == pcP \in {"p_tail2", "p_link"} /\ pBlock = cBlock

\* The push in flight has claimed the consumer's slot by its tail.index store
\* and stands before the fetch_or of WRITE at line 238.
PushWillWrite ==
    /\ pcP \in {"p_tail2", "p_link", "p_write", "p_flag"}
    /\ pBlock = cBlock
    /\ Offset(pTail) = Offset(cHead)

====
